---- MODULE Spec2Model ----
(***************************************************************************)
(* safe_system(): the Cygwin build of src/factor/safe_system.c.            *)
(*                                                                         *)
(* Every thread of the process calls safe_system(cmd) once.  A call is a   *)
(* sequence of steps, one per statement of the function, and the steps of  *)
(* different threads interleave freely.  The shell that system() starts,   *)
(* the file system of the working directory and the process table are the  *)
(* environment: the shell backgrounds the task and writes its pid with     *)
(* `echo -n $! > pidfile`, and a task exits whenever it likes.             *)
(***************************************************************************)
EXTENDS Integers, Sequences, FiniteSets, TLC

\* Number of threads that call safe_system concurrently.
NThreads == 2

Threads == 1..NThreads

\* Win32: OpenProcess returns NULL when it fails; INVALID_HANDLE_VALUE is
\* (HANDLE)-1.  A valid handle is modelled by the (positive) number of the
\* thread whose task it refers to.
NULL == 0
INVALID_HANDLE_VALUE == -1

\* Value of a local variable that has not been assigned yet.
Unset == -2

\* Cygwin pids the kernel hands out to backgrounded tasks: one- and
\* two-digit pids, enough for every task to be alive at the same time.
FirstPid == 9
CygPids == FirstPid..(FirstPid + NThreads - 1)

\* Windows pid of the task spawned by call t (Windows pids are multiples of 4).
WinPidOf(t) == 4 * t

\* Cygwin pids of live processes that are no task of this program (a login
\* shell, a daemon): they are alive before the first call and outlive the run.
ForeignPids == {977}

\* Windows pid of the foreign process with Cygwin pid p; a handle to a foreign
\* process is modelled by its Windows pid.
ForeignWinPidOf(p) == 4 * p
ForeignHandles == {ForeignWinPidOf(p) : p \in ForeignPids}

\* The command strings the callers pass, as sequences of characters: "true",
\* and "g77 x", a command with digits among its first characters.
TrueCmd == <<"t", "r", "u", "e">>
DigitCmd == <<"g", "7", "7", " ", "x">>
Cmds == {TrueCmd, DigitCmd}

\* Which thread passes which command.  The threads run the same code, so an
\* assignment is taken up to renaming of the threads: the callers of TrueCmd
\* come first.
CmdAssignments ==
    {c \in [Threads -> Cmds] :
        \A t, u \in Threads : (t < u /\ c[t] = DigitCmd) => c[u] = DigitCmd}

\* Wait statuses system() can return: the shell's exit status 0, exit status 1
\* (the redirection failed), and -1 (no shell could be started).
StatusOk == 0
StatusRedirectFailed == 256
StatusNoShell == -1

VARIABLES
    initializing,   \* 0: not yet, 1: in progress, 2: initialized
    critInits,      \* how many times InitializeCriticalSection(&systemcrit) ran
    critOwner,      \* thread owning systemcrit, 0 when it is free
    usecount,       \* the pidfile counter
    files,          \* pidfiles in the working directory: records [name, text]
    task,           \* task[t]: "none", "running" or "exited"
    taskpid,        \* taskpid[t]: Cygwin pid of the task of call t while it runs, else 0
    pc,             \* pc[t]: the statement thread t executes next
    cmd,            \* cmd[t]: the argument of the call
    pidfilename,    \* pidfilename[t]: the number in "_yafu_system_.%d"
    buf,            \* buf[t]: the command buffer
    ret,            \* ret[t]: what system(buf) returned
    f,              \* f[t]: the FILE*: Unset, NULL, 1 (open) or 2 (closed)
    pid,            \* pid[t]: atoi(buf)
    winpid,         \* winpid[t]: the Windows pid cygwin_internal returned
    h,              \* h[t]: the HANDLE
    result,         \* result[t]: the value the call returned
    winners,        \* history: threads whose compare-and-exchange returned 0
    touched,        \* history: touched[t] = pidfile names t opened, read or removed
    waited,         \* history: waited[t] = WaitForSingleObject was called by t
    handleOpen,     \* handleOpen[t] = t holds a process handle it has not closed
    acqOrder        \* history: the threads in the order they entered systemcrit

vars == <<initializing, critInits, critOwner, usecount, files, task, taskpid,
          pc, cmd, pidfilename, buf, ret, f, pid, winpid, h, result,
          winners, touched, waited, handleOpen, acqOrder>>

globals == <<initializing, critInits, critOwner, usecount, files, task, taskpid>>
locals == <<cmd, pidfilename, buf, ret, f, pid, h, result>>
history == <<winners, touched, waited, acqOrder>>

----------------------------------------------------------------------------
\* Text helpers.

DigitChars == <<"0", "1", "2", "3", "4", "5", "6", "7", "8", "9">>

\* sprintf("%d", n) for n >= 0.
RECURSIVE Decimal(_)
Decimal(n) ==
    IF n < 10 THEN <<DigitChars[n + 1]>>
    ELSE Decimal(n \div 10) \o <<DigitChars[(n % 10) + 1]>>

IsDigit(c) == \E i \in 1..10 : DigitChars[i] = c
DigitValue(c) == (CHOOSE i \in 1..10 : DigitChars[i] = c) - 1

\* atoi(): skip white space, then read decimal digits up to the first
\* character that is not a digit (or the end of the string).
RECURSIVE AtoiDigits(_, _, _)
AtoiDigits(s, i, acc) ==
    IF i > Len(s) \/ ~IsDigit(s[i]) THEN acc
    ELSE AtoiDigits(s, i + 1, 10 * acc + DigitValue(s[i]))

RECURSIVE SkipSpace(_, _)
SkipSpace(s, i) ==
    IF i <= Len(s) /\ s[i] = " " THEN SkipSpace(s, i + 1) ELSE i

atoi(s) == AtoiDigits(s, SkipSpace(s, 1), 0)

\* sprintf(pidfilename, "_yafu_system_.%d", n)
PidFileName(n) ==
    <<"_", "y", "a", "f", "u", "_", "s", "y", "s", "t", "e", "m", "_", ".">>
        \o Decimal(n)

\* stpcpy(buf, cmd); sprintf(ptr, " & echo -n $! > %s", pidfilename)
AugmentedCommand(c, n) ==
    c \o <<" ", "&", " ", "e", "c", "h", "o", " ", "-", "n", " ", "$", "!",
           " ", ">", " ">> \o PidFileName(n)

\* fread(buf, 1, 80, f): the bytes of the file overwrite the start of buf;
\* nothing terminates them, the rest of buf keeps its old content.
FreadCount == 80
Min(a, b) == IF a < b THEN a ELSE b
Fread(b, text) ==
    LET n == Min(Len(text), FreadCount)
    IN  SubSeq(text, 1, n) \o SubSeq(b, n + 1, Len(b))

----------------------------------------------------------------------------
Init ==
    /\ initializing = 0
    /\ critInits = 0
    /\ critOwner = 0
    /\ usecount = 0
    /\ files = {}
    /\ task = [t \in Threads |-> "none"]
    /\ taskpid = [t \in Threads |-> 0]
    /\ pc = [t \in Threads |-> "cas"]
    /\ cmd \in CmdAssignments
    /\ pidfilename = [t \in Threads |-> Unset]
    /\ buf = [t \in Threads |-> <<>>]
    /\ ret = [t \in Threads |-> Unset]
    /\ f = [t \in Threads |-> Unset]
    /\ pid = [t \in Threads |-> Unset]
    /\ winpid = [t \in Threads |-> Unset]
    /\ h = [t \in Threads |-> Unset]
    /\ result = [t \in Threads |-> Unset]
    /\ winners = {}
    /\ touched = [t \in Threads |-> {}]
    /\ waited = [t \in Threads |-> FALSE]
    /\ handleOpen = [t \in Threads |-> FALSE]
    /\ acqOrder = <<>>

----------------------------------------------------------------------------
\* Primitives.

\* A compare-and-exchange with its arguments swapped (exchange 0, comparand 1).
InterlockedCompareExchange_Swapped(cur, exch, cmp) ==
    [old |-> cur, new |-> IF cur = exch THEN cmp ELSE cur]

\* InterlockedCompareExchange(&dest, exch, cmp): atomically, if dest = cmp then
\* dest := exch; the value dest had before is returned.
InterlockedCompareExchange(cur, exch, cmp) ==
    [old |-> cur, new |-> IF cur = cmp THEN exch ELSE cur]

\* A counter that hands out its value without advancing.
PostIncrement_Stuck(v) == v

\* usecount++ : the value stored back.
PostIncrement(v) == v + 1

\* A handle test that also rejects NULL.
HandleIsInvalid_OrNull(hv) == hv = INVALID_HANDLE_VALUE \/ hv = NULL

\* h == INVALID_HANDLE_VALUE
HandleIsInvalid(hv) == hv = INVALID_HANDLE_VALUE

\* The pid the kernel gives to the next task: the lowest one that no running
\* task has, so that a pid is reused once its task has exited.
FreshPid ==
    CHOOSE p \in CygPids :
        /\ \A u \in Threads : task[u] = "running" => taskpid[u] # p
        /\ \A q \in CygPids :
              q < p => \E u \in Threads : task[u] = "running" /\ taskpid[u] = q

\* The pidfile of a given name, as a set of at most one record.
FileNamed(name) == {r \in files : r.name = name}

\* cygwin_internal(CW_CYGWIN_PID_TO_WINPID, p): the Windows pid of the live
\* Cygwin process p, 0 when there is no such process.
PidToWinpid(p) ==
    IF \E u \in Threads : task[u] = "running" /\ taskpid[u] = p
    THEN WinPidOf(CHOOSE u \in Threads : task[u] = "running" /\ taskpid[u] = p)
    ELSE IF p \in ForeignPids THEN ForeignWinPidOf(p)
    ELSE 0

\* OpenProcess(SYNCHRONIZE, FALSE, w): a handle to the process whose Windows
\* pid is w; NULL when no such process exists.
OpenProcess(w) ==
    IF \E u \in Threads : task[u] = "running" /\ WinPidOf(u) = w
    THEN CHOOSE u \in Threads : task[u] = "running" /\ WinPidOf(u) = w
    ELSE IF w \in ForeignHandles THEN w
    ELSE NULL

----------------------------------------------------------------------------
\* The steps of safe_system(cmd), for thread t.

\* if (0 == InterlockedCompareExchange(&initializing, 1, 0))
Cas(t) ==
    /\ pc[t] = "cas"
    /\ LET r == InterlockedCompareExchange(initializing, 1, 0)
       IN  /\ initializing' = r.new
           /\ IF r.old = 0
              THEN /\ pc' = [pc EXCEPT ![t] = "initcrit"]
                   /\ winners' = winners \cup {t}
              ELSE /\ pc' = [pc EXCEPT ![t] = "spin"]
                   /\ winners' = winners
    /\ UNCHANGED <<critInits, critOwner, usecount, files, task, taskpid>>
    /\ UNCHANGED <<locals, winpid, handleOpen, touched, waited, acqOrder>>

\* InitializeCriticalSection(&systemcrit): the section is (re)built free.
InitCrit(t) ==
    /\ pc[t] = "initcrit"
    /\ critInits' = critInits + 1
    /\ critOwner' = 0
    /\ pc' = [pc EXCEPT ![t] = "incr"]
    /\ UNCHANGED <<initializing, usecount, files, task, taskpid>>
    /\ UNCHANGED <<locals, winpid, handleOpen, history>>

\* initializing++
Incr(t) ==
    /\ pc[t] = "incr"
    /\ initializing' = initializing + 1
    /\ pc' = [pc EXCEPT ![t] = "enter"]
    /\ UNCHANGED <<critInits, critOwner, usecount, files, task, taskpid>>
    /\ UNCHANGED <<locals, winpid, handleOpen, history>>

\* A loser that does not wait for the winner.
Spin_NoWait(t) ==
    /\ pc[t] = "spin"
    /\ pc' = [pc EXCEPT ![t] = "enter"]
    /\ UNCHANGED <<globals, locals, winpid, handleOpen, history>>

\* else while (1 == initializing) usleep(10000);
Spin(t) ==
    /\ pc[t] = "spin"
    /\ IF 1 = initializing
       THEN pc' = pc
       ELSE pc' = [pc EXCEPT ![t] = "enter"]
    /\ UNCHANGED <<globals, locals, winpid, handleOpen, history>>

\* A critical section that lets every caller in.
EnterCriticalSection_NoExclusion(t) ==
    /\ pc[t] = "enter"
    /\ critOwner' = t
    /\ pc' = [pc EXCEPT ![t] = "usecount_read"]
    /\ UNCHANGED <<initializing, critInits, usecount, files, task, taskpid>>
    /\ acqOrder' = Append(acqOrder, t)
    /\ UNCHANGED <<locals, winpid, handleOpen, winners, touched, waited>>

\* EnterCriticalSection(&systemcrit): blocks while another thread owns the
\* section.  On a section that was never initialized the behaviour is
\* undefined: the call may block or return, with or without ownership.
EnterCriticalSection(t) ==
    /\ pc[t] = "enter"
    /\ IF critInits = 0
       THEN critOwner' \in {critOwner, t}
       ELSE critOwner = 0 /\ critOwner' = t
    /\ pc' = [pc EXCEPT ![t] = "usecount_read"]
    /\ UNCHANGED <<initializing, critInits, usecount, files, task, taskpid>>
    /\ acqOrder' = Append(acqOrder, t)
    /\ UNCHANGED <<locals, winpid, handleOpen, winners, touched, waited>>

\* sprintf(pidfilename, "_yafu_system_.%d", usecount++): the load of usecount
UsecountRead(t) ==
    /\ pc[t] = "usecount_read"
    /\ pidfilename' = [pidfilename EXCEPT ![t] = usecount]
    /\ pc' = [pc EXCEPT ![t] = "usecount_write"]
    /\ UNCHANGED <<globals, cmd, buf, ret, f, pid, h, result>>
    /\ UNCHANGED <<winpid, handleOpen, history>>

\* ... and the store of the incremented value, then
\* ptr = stpcpy(buf, cmd); sprintf(ptr, " & echo -n $! > %s", pidfilename)
UsecountWriteBuild(t) ==
    /\ pc[t] = "usecount_write"
    /\ usecount' = PostIncrement(pidfilename[t])
    /\ buf' = [buf EXCEPT ![t] = AugmentedCommand(cmd[t], pidfilename[t])]
    /\ pc' = [pc EXCEPT ![t] = "system"]
    /\ UNCHANGED <<initializing, critInits, critOwner, files, task, taskpid>>
    /\ UNCHANGED <<cmd, pidfilename, ret, f, pid, h, result>>
    /\ UNCHANGED <<winpid, handleOpen, history>>

\* int ret = system(buf).  Either no shell can be started, or the shell runs
\* `cmd & echo -n $! > pidfile`: the task is started in the background with a
\* fresh pid, and the echo writes that pid to the pidfile unless the
\* redirection fails.  The shell's status is that of the echo.
System(t) ==
    /\ pc[t] = "system"
    /\ \/ /\ ret' = [ret EXCEPT ![t] = StatusNoShell]
          /\ UNCHANGED <<files, task, taskpid>>
       \/ /\ task' = [task EXCEPT ![t] = "running"]
          /\ taskpid' = [taskpid EXCEPT ![t] = FreshPid]
          /\ \/ /\ files' = (files \ FileNamed(PidFileName(pidfilename[t])))
                              \cup {[name |-> PidFileName(pidfilename[t]),
                                     text |-> Decimal(FreshPid)]}
                /\ ret' = [ret EXCEPT ![t] = StatusOk]
             \/ /\ files' = files
                /\ ret' = [ret EXCEPT ![t] = StatusRedirectFailed]
    /\ pc' = [pc EXCEPT ![t] = "leave"]
    /\ UNCHANGED <<initializing, critInits, critOwner, usecount>>
    /\ UNCHANGED <<cmd, pidfilename, buf, f, pid, h, result>>
    /\ UNCHANGED <<winpid, handleOpen, history>>

\* A section that is left only when the call returns.
LeaveCriticalSection_Late(t) ==
    /\ pc[t] = "leave"
    /\ pc' = [pc EXCEPT ![t] = "fopen"]
    /\ UNCHANGED <<globals, locals, winpid, handleOpen, history>>

\* LeaveCriticalSection(&systemcrit)
LeaveCriticalSection(t) ==
    /\ pc[t] = "leave"
    /\ critOwner' = 0
    /\ pc' = [pc EXCEPT ![t] = "fopen"]
    /\ UNCHANGED <<initializing, critInits, usecount, files, task, taskpid>>
    /\ UNCHANGED <<locals, winpid, handleOpen, history>>

\* A caller that carries on without its pidfile.
Fopen_NoBail(t) ==
    /\ pc[t] = "fopen"
    /\ f' = [f EXCEPT ![t] = IF FileNamed(PidFileName(pidfilename[t])) # {}
                             THEN 1 ELSE NULL]
    /\ touched' = [touched EXCEPT ![t] = @ \cup {PidFileName(pidfilename[t])}]
    /\ pc' = [pc EXCEPT ![t] = "fread"]
    /\ UNCHANGED <<globals, cmd, pidfilename, buf, ret, pid, h, result>>
    /\ UNCHANGED <<winpid, handleOpen, winners, waited, acqOrder>>

\* FILE *f = fopen(pidfilename, "r"); if (!f) return -1;
Fopen(t) ==
    /\ pc[t] = "fopen"
    /\ IF FileNamed(PidFileName(pidfilename[t])) # {}
       THEN /\ f' = [f EXCEPT ![t] = 1]
            /\ touched' = [touched EXCEPT ![t] = @ \cup {PidFileName(pidfilename[t])}]
            /\ result' = result
            /\ pc' = [pc EXCEPT ![t] = "fread"]
       ELSE /\ f' = [f EXCEPT ![t] = NULL]
            /\ touched' = touched
            /\ result' = [result EXCEPT ![t] = -1]
            /\ pc' = [pc EXCEPT ![t] = "done"]
    /\ UNCHANGED <<globals, cmd, pidfilename, buf, ret, pid, h>>
    /\ UNCHANGED <<winpid, handleOpen, winners, waited, acqOrder>>

\* A caller that reads and closes its pidfile but leaves it behind.
FreadCloseRemove_NoRemove(t) ==
    /\ pc[t] = "fread"
    /\ LET here == FileNamed(PidFileName(pidfilename[t]))
           text == IF here = {} THEN <<>> ELSE (CHOOSE r \in here : TRUE).text
       IN  buf' = [buf EXCEPT ![t] = Fread(@, text)]
    /\ f' = [f EXCEPT ![t] = 2]
    /\ pc' = [pc EXCEPT ![t] = "openprocess"]
    /\ UNCHANGED <<globals, cmd, pidfilename, ret, pid, h, result>>
    /\ UNCHANGED <<winpid, handleOpen, history>>

\* fread(buf, 1, 80, f); fclose(f); remove(pidfilename)
FreadCloseRemove(t) ==
    /\ pc[t] = "fread"
    /\ LET here == FileNamed(PidFileName(pidfilename[t]))
           text == IF here = {} THEN <<>> ELSE (CHOOSE r \in here : TRUE).text
       IN  /\ buf' = [buf EXCEPT ![t] = Fread(@, text)]
           /\ files' = files \ here
    /\ f' = [f EXCEPT ![t] = 2]
    /\ pc' = [pc EXCEPT ![t] = "openprocess"]
    /\ UNCHANGED <<initializing, critInits, critOwner, usecount, task, taskpid>>
    /\ UNCHANGED <<cmd, pidfilename, ret, pid, h, result>>
    /\ UNCHANGED <<winpid, handleOpen, history>>

\* pid_t pid = atoi(buf);
\* DWORD winpid = cygwin_internal(CW_CYGWIN_PID_TO_WINPID, pid);
\* HANDLE h = OpenProcess(SYNCHRONIZE, FALSE, winpid);
\* if (h == INVALID_HANDLE_VALUE) return -1;
OpenProcessStep(t) ==
    /\ pc[t] = "openprocess"
    /\ LET p == atoi(buf[t])
           w == PidToWinpid(p)
           hv == OpenProcess(w)
       IN  /\ pid' = [pid EXCEPT ![t] = p]
           /\ winpid' = [winpid EXCEPT ![t] = w]
           /\ h' = [h EXCEPT ![t] = hv]
           /\ handleOpen' = [handleOpen EXCEPT ![t] = hv \in Threads \cup ForeignHandles]
           /\ IF HandleIsInvalid(hv)
              THEN /\ result' = [result EXCEPT ![t] = -1]
                   /\ pc' = [pc EXCEPT ![t] = "done"]
              ELSE /\ result' = result
                   /\ pc' = [pc EXCEPT ![t] = "wait"]
    /\ UNCHANGED <<globals, cmd, pidfilename, buf, ret, f, history>>

\* A wait that returns at once.
WaitForSingleObject_NoBlock(t) ==
    /\ pc[t] = "wait"
    /\ waited' = [waited EXCEPT ![t] = TRUE]
    /\ pc' = [pc EXCEPT ![t] = "closehandle"]
    /\ UNCHANGED <<globals, locals, winpid, handleOpen, winners, touched, acqOrder>>

\* WaitForSingleObject(h, INFINITE): returns when the process behind the
\* handle has exited; returns WAIT_FAILED at once when h is no handle.
WaitForSingleObject(t) ==
    /\ pc[t] = "wait"
    /\ h[t] \in Threads => task[h[t]] = "exited"
    /\ h[t] \notin ForeignHandles
    /\ waited' = [waited EXCEPT ![t] = TRUE]
    /\ pc' = [pc EXCEPT ![t] = "closehandle"]
    /\ UNCHANGED <<globals, locals, winpid, handleOpen, winners, touched, acqOrder>>

\* A return that forgets the handle.
CloseReturn_NoClose(t) ==
    /\ pc[t] = "closehandle"
    /\ result' = [result EXCEPT ![t] = ret[t]]
    /\ pc' = [pc EXCEPT ![t] = "done"]
    /\ buf' = [buf EXCEPT ![t] = <<>>]
    /\ f' = [f EXCEPT ![t] = Unset]
    /\ pid' = [pid EXCEPT ![t] = Unset]
    /\ winpid' = [winpid EXCEPT ![t] = Unset]
    /\ UNCHANGED <<globals, cmd, pidfilename, ret, h, handleOpen, history>>

\* CloseHandle(h); return ret
CloseReturn(t) ==
    /\ pc[t] = "closehandle"
    /\ handleOpen' = [handleOpen EXCEPT ![t] = FALSE]
    /\ result' = [result EXCEPT ![t] = ret[t]]
    /\ pc' = [pc EXCEPT ![t] = "done"]
    /\ buf' = [buf EXCEPT ![t] = <<>>]
    /\ f' = [f EXCEPT ![t] = Unset]
    /\ pid' = [pid EXCEPT ![t] = Unset]
    /\ winpid' = [winpid EXCEPT ![t] = Unset]
    /\ UNCHANGED <<globals, cmd, pidfilename, ret, h, history>>

\* The environment: the backgrounded task of call u exits.
TaskExit(u) ==
    /\ task[u] = "running"
    /\ task' = [task EXCEPT ![u] = "exited"]
    /\ taskpid' = [taskpid EXCEPT ![u] = 0]
    /\ UNCHANGED <<initializing, critInits, critOwner, usecount, files>>
    /\ UNCHANGED <<pc, locals, winpid, handleOpen, history>>

Next ==
    \E t \in Threads :
        \/ Cas(t)
        \/ InitCrit(t)
        \/ Incr(t)
        \/ Spin(t)
        \/ EnterCriticalSection(t)
        \/ UsecountRead(t)
        \/ UsecountWriteBuild(t)
        \/ System(t)
        \/ LeaveCriticalSection(t)
        \/ Fopen(t)
        \/ FreadCloseRemove(t)
        \/ OpenProcessStep(t)
        \/ WaitForSingleObject(t)
        \/ CloseReturn(t)
        \/ TaskExit(t)

Spec == Init /\ [][Next]_vars

\* The steps of thread t, and the specification under fair scheduling: a
\* thread that can take a step eventually takes one, and a running task
\* eventually exits.
ThreadStep(t) ==
    \/ Cas(t)
    \/ InitCrit(t)
    \/ Incr(t)
    \/ Spin(t)
    \/ EnterCriticalSection(t)
    \/ UsecountRead(t)
    \/ UsecountWriteBuild(t)
    \/ System(t)
    \/ LeaveCriticalSection(t)
    \/ Fopen(t)
    \/ FreadCloseRemove(t)
    \/ OpenProcessStep(t)
    \/ WaitForSingleObject(t)
    \/ CloseReturn(t)

FairSpec ==
    /\ Spec
    /\ \A t \in Threads : WF_vars(ThreadStep(t)) /\ WF_vars(TaskExit(t))

----------------------------------------------------------------------------
\* The build for platforms other than Cygwin: safe_system(cmd) is
\* `return system(cmd);`.  system() starts a shell that runs cmd and returns
\* the wait status once cmd has completed.

\* Exit statuses of a command as wait statuses: exit 0, exit 1, and exit 127
\* (command not found).
NativeExitStatuses == {StatusOk, StatusRedirectFailed, 32512}

InitNative ==
    /\ initializing = 0
    /\ critInits = 0
    /\ critOwner = 0
    /\ usecount = 0
    /\ files = {}
    /\ task = [t \in Threads |-> "none"]
    /\ taskpid = [t \in Threads |-> 0]
    /\ pc = [t \in Threads |-> "native"]
    /\ cmd \in CmdAssignments
    /\ pidfilename = [t \in Threads |-> Unset]
    /\ buf = [t \in Threads |-> <<>>]
    /\ ret = [t \in Threads |-> Unset]
    /\ f = [t \in Threads |-> Unset]
    /\ pid = [t \in Threads |-> Unset]
    /\ winpid = [t \in Threads |-> Unset]
    /\ h = [t \in Threads |-> Unset]
    /\ result = [t \in Threads |-> Unset]
    /\ winners = {}
    /\ touched = [t \in Threads |-> {}]
    /\ waited = [t \in Threads |-> FALSE]
    /\ handleOpen = [t \in Threads |-> FALSE]
    /\ acqOrder = <<>>

\* A pass-through that numbers its calls and hands system() an augmented
\* command.
NativeSystemCall_Augmented(t) ==
    /\ pc[t] = "native"
    /\ usecount' = usecount + 1
    /\ buf' = [buf EXCEPT ![t] = AugmentedCommand(cmd[t], usecount)]
    /\ task' = [task EXCEPT ![t] = "running"]
    /\ taskpid' = [taskpid EXCEPT ![t] = FreshPid]
    /\ ret' = ret
    /\ pc' = [pc EXCEPT ![t] = "native_wait"]
    /\ UNCHANGED <<initializing, critInits, critOwner, files>>
    /\ UNCHANGED <<cmd, pidfilename, f, pid, h, result>>
    /\ UNCHANGED <<winpid, handleOpen, history>>

\* system(cmd) is entered: buf records the string handed to system().  Either
\* no shell can be started and system() is about to return -1, or the shell
\* starts the command.
NativeSystemCall(t) ==
    /\ pc[t] = "native"
    /\ buf' = [buf EXCEPT ![t] = cmd[t]]
    /\ \/ /\ ret' = [ret EXCEPT ![t] = StatusNoShell]
          /\ pc' = [pc EXCEPT ![t] = "native_return"]
          /\ UNCHANGED <<task, taskpid>>
       \/ /\ task' = [task EXCEPT ![t] = "running"]
          /\ taskpid' = [taskpid EXCEPT ![t] = FreshPid]
          /\ ret' = ret
          /\ pc' = [pc EXCEPT ![t] = "native_wait"]
    /\ UNCHANGED <<initializing, critInits, critOwner, usecount, files>>
    /\ UNCHANGED <<cmd, pidfilename, f, pid, h, result>>
    /\ UNCHANGED <<winpid, handleOpen, history>>

\* system(cmd) returns the status of the command once it has completed.
NativeSystemWait(t) ==
    /\ pc[t] = "native_wait"
    /\ task[t] = "exited"
    /\ \E st \in NativeExitStatuses : ret' = [ret EXCEPT ![t] = st]
    /\ pc' = [pc EXCEPT ![t] = "native_return"]
    /\ UNCHANGED <<globals, cmd, pidfilename, buf, f, pid, h, result>>
    /\ UNCHANGED <<winpid, handleOpen, history>>

\* return system(cmd)
NativeReturn(t) ==
    /\ pc[t] = "native_return"
    /\ result' = [result EXCEPT ![t] = ret[t]]
    /\ pc' = [pc EXCEPT ![t] = "done"]
    /\ UNCHANGED <<globals, cmd, pidfilename, buf, ret, f, pid, h>>
    /\ UNCHANGED <<winpid, handleOpen, history>>

NextNative ==
    \E t \in Threads :
        \/ NativeSystemCall(t)
        \/ NativeSystemWait(t)
        \/ NativeReturn(t)
        \/ TaskExit(t)

SpecNative == InitNative /\ [][NextNative]_vars

----------------------------------------------------------------------------
\* Positions of a call.

\* From EnterCriticalSection (about to be called) onwards.
FromEnter == {"enter", "usecount_read", "usecount_write", "system", "leave",
              "fopen", "fread", "openprocess", "wait", "closehandle", "done"}

\* Between EnterCriticalSection and LeaveCriticalSection.
InCritical == {"usecount_read", "usecount_write", "system", "leave"}

\* After LeaveCriticalSection, before the return.
AfterLeave == {"fopen", "fread", "openprocess", "wait", "closehandle"}

----------------------------------------------------------------------------
\* C1: InitializeCriticalSection(&systemcrit) runs exactly once over the whole
\* run: at most one thread ever wins the compare-and-exchange, the section is
\* never constructed twice, only the winner constructs it, and once any thread
\* is past the initialization it has been constructed exactly once.
InitializedExactlyOnce ==
    /\ Cardinality(winners) <= 1
    /\ critInits <= 1
    /\ \A t \in Threads : pc[t] \in {"initcrit", "incr"} => winners = {t}
    /\ \A t \in Threads :
         pc[t] \in FromEnter \cup {"incr"} =>
            critInits = 1 /\ Cardinality(winners) = 1

\* A loser is in the spin-wait after the winner has constructed the section.
InitRaceWitness ==
    \E t, u \in Threads :
        /\ t # u
        /\ t \in winners
        /\ pc[t] = "incr"
        /\ pc[u] = "spin"
        /\ critInits = 1

\* C2: no thread is at or past EnterCriticalSection while initializing is not
\* 2: a loser is held in the spin-wait while the flag is 1, and the flag is 2
\* only once the section has been constructed.
NoSubmissionBeforeInitialized ==
    /\ \A t \in Threads : pc[t] \in FromEnter => initializing = 2
    /\ initializing = 2 => critInits = 1

\* A loser of the compare-and-exchange has left the spin-wait.
LoserPastSpinWitness ==
    \E t \in Threads :
        /\ t \notin winners
        /\ pc[t] = "enter"
        /\ initializing = 2

\* C3: at most one thread at a time is between EnterCriticalSection and
\* LeaveCriticalSection, hence inside system().
OneSubmissionAtATime ==
    Cardinality({t \in Threads : pc[t] \in InCritical}) <= 1

\* One thread is in system() while another is held at EnterCriticalSection.
BlockedAtEnterWitness ==
    \E t, u \in Threads :
        /\ pc[t] = "system"
        /\ pc[u] = "enter"
        /\ critOwner = t
        /\ ~ENABLED EnterCriticalSection(u)

\* C4: a thread that reads its pidfile or waits on its task does not hold the
\* section, so a running task never keeps another caller from submitting.
LockFreeWhileWaiting ==
    \A t \in Threads :
        pc[t] \in AfterLeave => critOwner # t

\* Two calls are blocked in WaitForSingleObject, each on its own running task.
TwoTasksAwaitedWitness ==
    \E t, u \in Threads :
        /\ t # u
        /\ pc[t] = "wait" /\ h[t] = t /\ task[t] = "running"
        /\ pc[u] = "wait" /\ h[u] = u /\ task[u] = "running"
        /\ critOwner = 0

DistinctHandoffIds ==
    \A t, u \in Threads :
        t # u =>
            /\ (pidfilename[t] # Unset /\ pidfilename[u] # Unset) =>
                    pidfilename[t] # pidfilename[u]
            /\ touched[t] \cap touched[u] = {}

\* Two calls have each opened a pidfile.
TwoHandoffsWitness ==
    \E t, u \in Threads :
        /\ t # u
        /\ touched[t] # {}
        /\ touched[u] # {}

\* C7: a call whose pidfile cannot be opened returns -1 at once: it opens no
\* process handle and never calls WaitForSingleObject.
NoHandoffReturnsFailure ==
    \A t \in Threads :
        f[t] = NULL =>
            /\ pc[t] = "done"
            /\ result[t] = -1
            /\ h[t] = Unset
            /\ ~handleOpen[t]
            /\ ~waited[t]

\* The shell started the task but could not create the pidfile; the call has
\* returned -1.
NoHandoffWitness ==
    \E t \in Threads :
        /\ f[t] = NULL
        /\ ret[t] = StatusRedirectFailed
        /\ task[t] = "running"
        /\ result[t] = -1

\* C8, as claimed: a call that could not open a handle to its task returns -1
\* without waiting.
NoHandleReturnsFailure ==
    \A t \in Threads :
        (pc[t] = "done" /\ h[t] = NULL) => (result[t] = -1 /\ ~waited[t])

\* C9, as claimed: a call returns what system() returned when its pidfile and
\* its handle were opened and the wait completed, and -1 otherwise.
ReturnValueDichotomy ==
    \A t \in Threads :
        pc[t] = "done" =>
            IF h[t] \in Threads /\ waited[t]
            THEN result[t] = ret[t]
            ELSE result[t] = -1

HandoffFileRemoved ==
    \A t \in Threads :
        /\ Cardinality(touched[t]) <= 1
        /\ (pc[t] = "done" /\ touched[t] # {}) =>
                \A n \in touched[t] : FileNamed(n) = {}

\* Every call has returned, each after opening its own pidfile, and the
\* working directory holds no pidfile.
AllHandoffsRemovedWitness ==
    /\ \A t \in Threads : pc[t] = "done" /\ touched[t] # {}
    /\ files = {}

\* C12, as claimed: under fair scheduling, with system() returning and every
\* task exiting, every call eventually returns.
EveryCallReturns ==
    \A t \in Threads : <>(pc[t] = "done")

\* C13: in the build for other platforms, a call hands cmd unchanged to
\* system(), returns what system() returned, and leaves the flag, the critical
\* section, the counter, the working directory and the handles alone.
NativePassThrough ==
    /\ \A t \in Threads :
         /\ pc[t] \in {"native_wait", "native_return", "done"} => buf[t] = cmd[t]
         /\ pc[t] = "done" => (result[t] = ret[t] /\ task[t] # "running")
         /\ pidfilename[t] = Unset /\ f[t] = Unset
         /\ h[t] = Unset /\ ~handleOpen[t] /\ ~waited[t]
         /\ touched[t] = {}
    /\ initializing = 0 /\ critInits = 0 /\ critOwner = 0
    /\ usecount = 0
    /\ files = {}

\* Every call has returned; one returned a non-zero status of its command.
NativeReturnedWitness ==
    /\ \A t \in Threads : pc[t] = "done" /\ result[t] = ret[t]
    /\ \E t \in Threads : result[t] = 32512 /\ task[t] = "exited"

\* C14: usecount is loaded and stored only by the thread that owns the
\* section; the store of a call raises it by exactly one, and no other step
\* changes it.
UsecountOnlyUnderLock ==
    [][ /\ usecount' # usecount =>
              \E t \in Threads :
                  /\ critOwner = t
                  /\ pc[t] = "usecount_write" /\ pc'[t] = "system"
        /\ \A t \in Threads :
              pidfilename'[t] # pidfilename[t] =>
                  (critOwner = t /\ pidfilename'[t] = usecount)
        /\ \A t \in Threads :
              (pc[t] = "usecount_write" /\ pc'[t] = "system") =>
                  usecount' = usecount + 1
      ]_vars

\* Every call has returned and usecount has been raised once per call.
UsecountRaisedWitness ==
    /\ \A t \in Threads : pc[t] = "done"
    /\ usecount = NThreads

\* C15: the values of usecount the calls take are strictly increasing in the
\* order in which the calls entered the critical section.
IdsFollowAcquisitionOrder ==
    \A i, j \in 1..Len(acqOrder) :
        (/\ i < j
         /\ pidfilename[acqOrder[i]] # Unset
         /\ pidfilename[acqOrder[j]] # Unset)
            => pidfilename[acqOrder[i]] < pidfilename[acqOrder[j]]

\* All calls have taken their value; the last thread entered first.
IdsInOrderWitness ==
    /\ Len(acqOrder) = NThreads
    /\ acqOrder[1] = NThreads
    /\ \A t \in Threads : pidfilename[t] # Unset
    /\ pidfilename[NThreads] = 0

\* C16: a call that has returned holds no open process handle: a handle it
\* got from OpenProcess has been closed, and a call that returned -1 never
\* got one.
NoHandleLeak ==
    \A t \in Threads :
        pc[t] = "done" =>
            /\ ~handleOpen[t]
            /\ result[t] = -1 => h[t] \notin Threads \cup ForeignHandles

\* One call has returned after closing the handle it waited on, another has
\* returned -1 without a handle.
HandleClosedWitness ==
    \E t, u \in Threads :
        /\ pc[t] = "done" /\ h[t] = t /\ waited[t] /\ ~handleOpen[t]
        /\ pc[u] = "done" /\ result[u] = -1 /\ h[u] = Unset

\* C17, as claimed: the pid a call parses from buf after fread, and waits on,
\* is the decimal number the shell wrote into its pidfile, that is the pid of
\* the call's task (compared while the task runs and so still has that pid).
ParsedPidIsFilePid ==
    \A t \in Threads :
        task[t] = "running" =>
            /\ pc[t] = "openprocess" => atoi(buf[t]) = taskpid[t]
            /\ pc[t] \in {"wait", "closehandle"} => pid[t] = taskpid[t]

\* C18: systemcrit is released on every path: a thread owns it only between
\* EnterCriticalSection and LeaveCriticalSection, so no thread that reads its
\* pidfile, waits or has returned owns it, and it is free whenever no thread
\* is in the critical section.
LockReleasedOnEveryPath ==
    /\ \A t \in Threads : critOwner = t => pc[t] \in InCritical
    /\ (\A t \in Threads : pc[t] \notin InCritical) => critOwner = 0
    /\ \A t \in Threads : pc[t] \in InCritical => critOwner = t

\* One call has returned -1 and another the submission status, and the
\* section is free.
LockFreeAfterReturnsWitness ==
    \E t, u \in Threads :
        /\ pc[t] = "done" /\ result[t] = -1 /\ f[t] = NULL
        /\ pc[u] = "done" /\ result[u] = StatusOk /\ waited[u]
        /\ critOwner = 0
        /\ Len(acqOrder) = NThreads

====
